---------------------------- MODULE Spec2Model ----------------------------
(***************************************************************************)
(* governator-swarm: the deployer's Run cycle (deployer package) and the   *)
(* driver loop of main.go, run by several consumer processes against one   *)
(* shared redis store, one docker swarm control plane and one              *)
(* deploy-state tracker.                                                   *)
(*                                                                         *)
(* Strings are sequences of tokens.  The tokens "/" and ":" are the two    *)
(* separator characters the code splits on; every other token stands for a *)
(* run of characters holding neither.  Deploy identifiers are 1..NumIds,   *)
(* standing for the strings "d1" < "d2" < ... in redis' lexicographic      *)
(* member order; 0 stands for the empty string "".                         *)
(*                                                                         *)
(* Every redis command is one atomic step of the store.  A command that    *)
(* returns an error has not been applied.                                  *)
(***************************************************************************)
EXTENDS Integers, Sequences, FiniteSets, TLC

----------------------------------------------------------------------------
(* Bounds of the model *)

NumConsumers == 2
NumIds == 2
MaxTime == 1
MaxEnq == 1
MaxUrlLen == 7
MaxStale == 2
MaxRequeue == 1

Consumers == 1..NumConsumers
Ids == 1..NumIds
NoDeploy == 0
Scores == 0..(MaxTime + 1)
NotMember == -1

----------------------------------------------------------------------------
(* Strings *)

Slash == "/"
Colon == ":"
Chars == {"a", "b", Slash, Colon}

RECURSIVE StrOfLen(_)
StrOfLen(n) ==
  IF n = 0 THEN {<<>>}
  ELSE {Append(s, ch) : s \in StrOfLen(n - 1), ch \in Chars}

UrlInputs == UNION {StrOfLen(n) : n \in 0..MaxUrlLen}

(* strings.Split(s, sep) for a one-character separator: the pieces between *)
(* the occurrences of sep, one more piece than there are occurrences.      *)
RECURSIVE Split(_, _)
Split(s, sep) ==
  IF s = <<>> THEN <<(<<>>)>>
  ELSE LET rest == Split(Tail(s), sep)
       IN IF Head(s) = sep
          THEN <<(<<>>)>> \o rest
          ELSE <<(<<Head(s)>> \o Head(rest))>> \o Tail(rest)

EmptyTriple == <<(<<>>), (<<>>), (<<>>)>>
NotParsed == <<>>

parseDockerURLLenient(dockerURL) ==
  LET dockerURLParts == Split(dockerURL, Colon)
  IN IF Len(dockerURLParts) # 2 THEN EmptyTriple
     ELSE LET tag == dockerURLParts[2]
              projectParts == Split(dockerURLParts[1], Slash)
          IN IF Len(projectParts) = 2
             THEN <<projectParts[1], projectParts[2], tag>>
             ELSE IF Len(projectParts) = 3
             THEN <<projectParts[2], projectParts[3], tag>>
             ELSE <<(<<>>), projectParts[Len(projectParts)], tag>>

parseDockerURLWrongOwner(dockerURL) ==
  LET dockerURLParts == Split(dockerURL, Colon)
  IN IF Len(dockerURLParts) # 2 THEN EmptyTriple
     ELSE LET tag == dockerURLParts[2]
              projectParts == Split(dockerURLParts[1], Slash)
          IN IF Len(projectParts) = 2
             THEN <<projectParts[1], projectParts[2], tag>>
             ELSE IF Len(projectParts) = 3
             THEN <<projectParts[1], projectParts[3], tag>>
             ELSE <<projectParts[1], projectParts[Len(projectParts)], tag>>

parseDockerURL(dockerURL) ==
  LET dockerURLParts == Split(dockerURL, Colon)
  IN IF Len(dockerURLParts) # 2 THEN EmptyTriple
     ELSE LET tag == dockerURLParts[2]
              projectParts == Split(dockerURLParts[1], Slash)
          IN IF Len(projectParts) = 2
             THEN <<projectParts[1], projectParts[2], tag>>
             ELSE IF Len(projectParts) = 3
             THEN <<projectParts[2], projectParts[3], tag>>
             ELSE EmptyTriple


----------------------------------------------------------------------------
(* Configuration of a deployer (Deployer struct, New) *)

queueName == <<"q">>
deployStateURI == <<"https", Colon, Slash, Slash, "tracker">>
cluster == <<"c">>

(* getKey: "<queueName>:<key>" *)
getKey(key) == queueName \o <<Colon>> \o key

DeploysKey == getKey(<<"governator", Colon, "deploys">>)
IdString(id) == <<"d", id>>
RecordKey(id) == getKey(IdString(id))

----------------------------------------------------------------------------
(* Values the producer writes *)

DockerURLs ==
  { <<"o", Slash, "r", Colon, "t">>,
    <<"g", Slash, "o", Slash, "r", Colon, "u">>,
    <<"r", Colon, "t">> }

(* The bytes of the request:metadata field: absent (nil), bytes that are   *)
(* no JSON document, or a JSON object with a dockerUrl member.             *)
NilBytes == [present |-> FALSE, json |-> FALSE, etcdDir |-> <<>>, dockerUrl |-> <<>>]
GarbageBytes == [present |-> TRUE, json |-> FALSE, etcdDir |-> <<>>, dockerUrl |-> <<>>]
JsonBytes(u) == [present |-> TRUE, json |-> TRUE, etcdDir |-> <<"dir">>, dockerUrl |-> u]
MetadataBytes == {NilBytes, GarbageBytes} \cup {JsonBytes(u) : u \in DockerURLs}

ServiceNames == {parseDockerURL(u)[2] : u \in DockerURLs} \ {<<>>}

StatusCodes == {200, 399, 400, 500}

----------------------------------------------------------------------------
(* Errors: nil is the empty tuple *)

Nil == <<>>
RedisError == <<"redis: connection error">>
DockerError == <<"docker: request failed">>
OutOfSequence == <<"docker: update out of sequence">>
NoSuchService == <<"docker: no such service">>
JsonError == <<"json: invalid character">>
HttpError == <<"http: request failed">>
InvalidResponse == <<"invalid response from deploy-state-service">>
MetadataNotFoundUnnamed(id) == <<"Deploy metadata not found">>
MetadataNotFound(id) == <<"Deploy metadata not found for", IdString(id)>>

----------------------------------------------------------------------------
VARIABLES
  now,              \* time.Now().Unix()
  zset,             \* the ordered set <queue>:governator:deploys: member -> score
  hash,             \* the records <queue>:<id>: fields cancellation, request:metadata
  services,         \* the swarm services: name -> spec image and version
  pc,               \* where each consumer process is
  deploy,           \* the identifier a consumer's cycle selected
  metadata,         \* the RequestMetadata a consumer's cycle decoded
  service,          \* the service a consumer's cycle inspected
  err,              \* the error Run returned
  calls,            \* the calls a consumer made in its current cycle, in order
  sigTermReceived,  \* main.go's flag, per process
  laterCycles,      \* per process: cycles started while the flag was set
  storeFails,       \* whether commands to the store can fail
  hist,             \* per identifier: how often it was enqueued, claimed, ...
  url,              \* input of the parsing specification
  parsed            \* result of the parsing specification

vars == <<now, zset, hash, services, pc, deploy, metadata, service, err, calls,
          sigTermReceived, laterCycles, storeFails, hist, url, parsed>>

storeVars == <<zset, hash>>
cycleVars == <<deploy, metadata, service, err, calls>>
parseVars == <<url, parsed>>
driverVars == <<sigTermReceived, laterCycles, storeFails>>

NoMetadata == [EtcdDir |-> <<>>, DockerURL |-> <<>>]
NoService == [ID |-> <<>>, Version |-> 0, Image |-> <<>>]
NoHist == [enq |-> 0, claimed |-> 0, lost |-> 0, validated |-> 0, cancelled |-> 0,
           hget |-> 0, inspect |-> 0, update |-> 0, updateMarked |-> 0,
           notify |-> 0]

Member(z, id) == z[id] # NotMember

MainInit ==
  /\ now = 0
  /\ zset = [id \in Ids |-> NotMember]
  /\ hash = [k \in {RecordKey(id) : id \in Ids} |->
               [cancellation |-> FALSE, metadata |-> NilBytes]]
  /\ services = [n \in ServiceNames |-> [Version |-> 0, Image |-> <<>>]]
  /\ pc = [c \in Consumers |-> "loop"]
  /\ deploy = [c \in Consumers |-> NoDeploy]
  /\ metadata = [c \in Consumers |-> NoMetadata]
  /\ service = [c \in Consumers |-> NoService]
  /\ err = [c \in Consumers |-> Nil]
  /\ calls = [c \in Consumers |-> <<>>]
  /\ sigTermReceived = [c \in Consumers |-> FALSE]
  /\ laterCycles = [c \in Consumers |-> 0]
  /\ hist = [id \in Ids |-> NoHist]

Init ==
  /\ MainInit
  /\ storeFails = TRUE
  /\ url = <<>>
  /\ parsed = NotParsed

----------------------------------------------------------------------------
(* The redis commands the deployer issues *)

(* ZRANGEBYSCORE key min max: the members with min <= score <= max, by     *)
(* ascending score, members of equal score in lexicographic order.         *)
RECURSIVE SortByScore(_, _)
SortByScore(z, members) ==
  IF members = {} THEN <<>>
  ELSE LET first == CHOOSE m \in members :
                      \A o \in members :
                        \/ z[m] < z[o]
                        \/ z[m] = z[o] /\ m <= o
       IN <<first>> \o SortByScore(z, members \ {first})

ZRangeByScoreNoMax(z, min, max) ==
  SortByScore(z, {id \in Ids : Member(z, id) /\ min <= z[id]})

ZRangeByScore(z, min, max) ==
  SortByScore(z, {id \in Ids : Member(z, id) /\ min <= z[id] /\ z[id] <= max})

ZRemAll(z, member) == [id \in DOMAIN z |-> NotMember]

ZRemKeeps(z, member) == z

(* ZREM key member: the count of members removed, and the set afterwards *)
ZRemCount(z, member) == IF Member(z, member) THEN 1 ELSE 0
ZRem(z, member) == [z EXCEPT ![member] = NotMember]

(* HEXISTS key field *)
HExists(h, key, field) ==
  IF field = "cancellation"
  THEN (IF h[key].cancellation THEN 1 ELSE 0)
  ELSE (IF h[key].metadata.present THEN 1 ELSE 0)

(* HGET key "request:metadata": the bytes, or nil *)
HGet(h, key) == h[key].metadata

(* json.Unmarshal into RequestMetadata *)
UnmarshalOk(bytes) == bytes.json
Unmarshal(bytes) == [EtcdDir |-> bytes.etcdDir, DockerURL |-> bytes.dockerUrl]

Call(op, arg, ok, reply) == [op |-> op, arg |-> arg, ok |-> ok, reply |-> reply]

Bump(id, field) == [hist EXCEPT ![id][field] = @ + 1]

StoreFailureSwallowed(e) == Nil

(* getNextValidDeploy and Run on an error of a store command: return it *)
StoreFailure(e) == e

ControlPlaneFailureSwallowed(e) == Nil

(* deploy and Run on an error of the control plane: return it *)
ControlPlaneFailure(e) == e

(* Run returns e: the driver of main.go gets the error *)
Return(c, e) ==
  /\ pc' = [pc EXCEPT ![c] = "returned"]
  /\ err' = [err EXCEPT ![c] = e]

Goto(c, label) ==
  /\ pc' = [pc EXCEPT ![c] = label]
  /\ err' = err

----------------------------------------------------------------------------
(* deployer.Run, one action per call it makes to a collaborator *)

getNextDeployResultLast(deploys) ==
  IF Len(deploys) = 0 THEN NoDeploy ELSE deploys[Len(deploys)]

(* getNextDeploy: what it returns for the reply of ZRANGEBYSCORE *)
getNextDeployResult(deploys) ==
  IF Len(deploys) = 0 THEN NoDeploy ELSE deploys[1]

(* getNextDeploy, and getNextValidDeploy up to its call of lockDeploy *)
getNextDeploy(c) ==
  /\ pc[c] = "getNextDeploy"
  /\ \/ /\ storeFails
        /\ calls' = [calls EXCEPT ![c] = Append(@, Call("ZRANGEBYSCORE", DeploysKey, FALSE, NoDeploy))]
        /\ Return(c, StoreFailure(RedisError))
        /\ deploy' = deploy
     \/ LET deploys == ZRangeByScore(zset, 0, now)
            next == getNextDeployResult(deploys)
        IN /\ calls' = [calls EXCEPT ![c] = Append(@, Call("ZRANGEBYSCORE", DeploysKey, TRUE, next))]
           /\ deploy' = [deploy EXCEPT ![c] = next]
           /\ IF next = NoDeploy THEN Return(c, Nil) ELSE Goto(c, "lockDeploy")
  /\ UNCHANGED <<now, storeVars, services, metadata, service, driverVars, hist, parseVars>>

lockDeployResultIgnoresCount(zremResult) == TRUE

(* lockDeploy: what it returns for the reply of ZREM *)
lockDeployResult(zremResult) == zremResult # 0

(* lockDeploy, and getNextValidDeploy up to its call of validateDeploy *)
lockDeploy(c) ==
  /\ pc[c] = "lockDeploy"
  /\ \/ /\ storeFails
        /\ calls' = [calls EXCEPT ![c] = Append(@, Call("ZREM", deploy[c], FALSE, 0))]
        /\ Return(c, StoreFailure(RedisError))
        /\ UNCHANGED <<zset, hist>>
     \/ LET zremResult == ZRemCount(zset, deploy[c])
            ok == lockDeployResult(zremResult)
        IN /\ zset' = ZRem(zset, deploy[c])
           /\ calls' = [calls EXCEPT ![c] = Append(@, Call("ZREM", deploy[c], TRUE, zremResult))]
           /\ hist' = Bump(deploy[c], IF zremResult # 0 THEN "claimed" ELSE "lost")
           /\ IF ok THEN Goto(c, "validateDeploy") ELSE Return(c, Nil)
  /\ UNCHANGED <<now, hash, services, deploy, metadata, service, driverVars, parseVars>>

validateDeployResultIgnoresMarker(exists) == TRUE

(* validateDeploy: what it returns for the reply of HEXISTS *)
validateDeployResult(exists) == exists = 0

(* validateDeploy, and getNextValidDeploy up to its call of getMetadata *)
validateDeploy(c) ==
  /\ pc[c] = "validateDeploy"
  /\ \/ /\ storeFails
        /\ calls' = [calls EXCEPT ![c] = Append(@, Call("HEXISTS", deploy[c], FALSE, 0))]
        /\ hist' = Bump(deploy[c], "validated")
        /\ Return(c, StoreFailure(RedisError))
     \/ LET exists == HExists(hash, RecordKey(deploy[c]), "cancellation")
            ok == validateDeployResult(exists)
        IN /\ calls' = [calls EXCEPT ![c] = Append(@, Call("HEXISTS", deploy[c], TRUE, exists))]
           /\ hist' = [hist EXCEPT ![deploy[c]].validated = @ + 1,
                                   ![deploy[c]].cancelled = @ + exists]
           /\ IF ok THEN Goto(c, "getMetadata") ELSE Return(c, Nil)
  /\ UNCHANGED <<now, storeVars, services, deploy, metadata, service, driverVars, parseVars>>

(* getMetadata, and the return of getNextValidDeploy to Run *)
getMetadata(c) ==
  /\ pc[c] = "getMetadata"
  /\ hist' = Bump(deploy[c], "hget")
  /\ \/ /\ storeFails
        /\ calls' = [calls EXCEPT ![c] = Append(@, Call("HGET", deploy[c], FALSE, NilBytes))]
        /\ Return(c, StoreFailure(RedisError))
        /\ metadata' = metadata
     \/ LET metadataBytes == HGet(hash, RecordKey(deploy[c]))
        IN /\ calls' = [calls EXCEPT ![c] = Append(@, Call("HGET", deploy[c], TRUE, metadataBytes))]
           /\ IF ~metadataBytes.present
              THEN Return(c, MetadataNotFound(deploy[c])) /\ metadata' = metadata
              ELSE IF ~UnmarshalOk(metadataBytes)
              THEN Return(c, JsonError) /\ metadata' = metadata
              ELSE /\ metadata' = [metadata EXCEPT ![c] = Unmarshal(metadataBytes)]
                   /\ Goto(c, "ServiceInspect")
  /\ UNCHANGED <<now, storeVars, services, deploy, service, driverVars, parseVars>>

(* The control plane: inspect a service by name.  A name no service has,   *)
(* the empty name included, is answered with an error.                     *)
InspectFound(svcs, name) == name \in DOMAIN svcs

(* The control plane accepts an update only with the current version *)
UpdateAccepted(svcs, id, version) == InspectFound(svcs, id) /\ svcs[id].Version = version

(* deploy, up to and including ServiceInspectWithRaw *)
ServiceInspect(c) ==
  /\ pc[c] = "ServiceInspect"
  /\ hist' = Bump(deploy[c], "inspect")
  /\ LET repo == parseDockerURL(metadata[c].DockerURL)[2]
     IN \/ /\ calls' = [calls EXCEPT ![c] = Append(@, Call("ServiceInspect", repo, FALSE, NoService))]
           /\ Return(c, ControlPlaneFailure(DockerError))
           /\ service' = service
        \/ IF InspectFound(services, repo)
           THEN LET found == [ID |-> repo, Version |-> services[repo].Version,
                              Image |-> services[repo].Image]
                IN /\ calls' = [calls EXCEPT ![c] = Append(@, Call("ServiceInspect", repo, TRUE, found))]
                   /\ service' = [service EXCEPT ![c] = found]
                   /\ Goto(c, "ServiceUpdate")
           ELSE /\ calls' = [calls EXCEPT ![c] = Append(@, Call("ServiceInspect", repo, FALSE, NoService))]
                /\ Return(c, ControlPlaneFailure(NoSuchService))
                /\ service' = service
  /\ UNCHANGED <<now, storeVars, services, deploy, metadata, driverVars, parseVars>>

UpdateRequestShortImage(svc, md) ==
  [ID |-> svc.ID, Version |-> svc.Version, Image |-> parseDockerURL(md.DockerURL)[2]]

(* deploy: the spec and version it submits to ServiceUpdate *)
UpdateRequest(svc, md) == [ID |-> svc.ID, Version |-> svc.Version, Image |-> md.DockerURL]

(* deploy: ServiceUpdate *)
ServiceUpdate(c) ==
  /\ pc[c] = "ServiceUpdate"
  /\ LET req == UpdateRequest(service[c], metadata[c])
         marked == IF hash[RecordKey(deploy[c])].cancellation THEN 1 ELSE 0
     IN /\ hist' = [hist EXCEPT ![deploy[c]].update = @ + 1,
                                ![deploy[c]].updateMarked = @ + marked]
        /\ \/ /\ calls' = [calls EXCEPT ![c] = Append(@, Call("ServiceUpdate", req, FALSE, 0))]
              /\ Return(c, ControlPlaneFailure(DockerError))
              /\ services' = services
           \/ IF UpdateAccepted(services, req.ID, req.Version)
              THEN /\ calls' = [calls EXCEPT ![c] = Append(@, Call("ServiceUpdate", req, TRUE, 0))]
                   /\ services' = [services EXCEPT ![req.ID].Image = req.Image,
                                                   ![req.ID].Version = @ + 1]
                   /\ Goto(c, "notifyDeployState")
              ELSE /\ calls' = [calls EXCEPT ![c] = Append(@, Call("ServiceUpdate", req, FALSE, 0))]
                   /\ Return(c, ControlPlaneFailure(OutOfSequence))
                   /\ services' = services
  /\ UNCHANGED <<now, storeVars, deploy, metadata, service, driverVars, parseVars>>

(* notifyDeployState: the URL of the request *)
TrackerURL(dockerURL) ==
  LET triple == parseDockerURL(dockerURL)
      uri == <<"deployments", Slash>> \o triple[1] \o <<Slash>> \o triple[2] \o <<Slash>>
             \o triple[3] \o <<Slash, "cluster", Slash>> \o cluster \o <<Slash, "passed">>
  IN deployStateURI \o <<Slash>> \o uri

notifyDeployStateResultServerErrors(statusCode) ==
  IF statusCode > 499 THEN InvalidResponse ELSE Nil

(* notifyDeployState: what it returns for the status code of the response *)
notifyDeployStateResult(statusCode) ==
  IF statusCode > 399 THEN InvalidResponse ELSE Nil

(* notifyDeployState, and the return of deploy and Run *)
notifyDeployState(c) ==
  /\ pc[c] = "notifyDeployState"
  /\ hist' = Bump(deploy[c], "notify")
  /\ LET fullURL == TrackerURL(metadata[c].DockerURL)
     IN \/ /\ calls' = [calls EXCEPT ![c] = Append(@, Call("PUT", fullURL, FALSE, 0))]
           /\ Return(c, HttpError)
        \/ \E statusCode \in StatusCodes :
             /\ calls' = [calls EXCEPT ![c] = Append(@, Call("PUT", fullURL, TRUE, statusCode))]
             /\ Return(c, notifyDeployStateResult(statusCode))
  /\ UNCHANGED <<now, storeVars, services, deploy, metadata, service, driverVars, parseVars>>

----------------------------------------------------------------------------
(* main.go: run *)

(* The value the loop reads from sigTermReceived.  The flag is written by  *)
(* the signal goroutine and read by the loop with no synchronisation: a    *)
(* read may still see the value from before the write.                     *)
FlagReads(c) ==
  IF ~sigTermReceived[c] THEN {FALSE}
  ELSE IF laterCycles[c] < MaxStale THEN {TRUE, FALSE}
  ELSE {TRUE}

(* the top of the for loop: exit, or call theDeployer.Run() *)
LoopTop(c) ==
  /\ pc[c] = "loop"
  /\ \E seen \in FlagReads(c) :
       /\ pc' = [pc EXCEPT ![c] = IF seen THEN "exited" ELSE "getNextDeploy"]
       /\ laterCycles' = [laterCycles EXCEPT ![c] =
                            IF sigTermReceived[c] /\ ~seen THEN @ + 1 ELSE @]
  /\ UNCHANGED <<now, storeVars, services, cycleVars, sigTermReceived, storeFails,
                 hist, parseVars>>

(* what the loop does with the error Run returned *)
AfterRun(e) == IF e # Nil THEN "panicked" ELSE "sleep"

(* Run has returned: log.Panic on an error, else time.Sleep *)
RunReturned(c) ==
  /\ pc[c] = "returned"
  /\ pc' = [pc EXCEPT ![c] = AfterRun(err[c])]
  /\ deploy' = [deploy EXCEPT ![c] = NoDeploy]
  /\ metadata' = [metadata EXCEPT ![c] = NoMetadata]
  /\ service' = [service EXCEPT ![c] = NoService]
  /\ err' = [err EXCEPT ![c] = Nil]
  /\ calls' = [calls EXCEPT ![c] = <<>>]
  /\ UNCHANGED <<now, storeVars, services, driverVars, hist, parseVars>>

(* time.Sleep(1 * time.Second) is over *)
Sleep(c) ==
  /\ pc[c] = "sleep"
  /\ pc' = [pc EXCEPT ![c] = "loop"]
  /\ UNCHANGED <<now, storeVars, services, cycleVars, driverVars, hist, parseVars>>

(* the goroutine that waits for SIGTERM *)
SigTerm(c) ==
  /\ pc[c] \notin {"exited", "panicked"}
  /\ ~sigTermReceived[c]
  /\ sigTermReceived' = [sigTermReceived EXCEPT ![c] = TRUE]
  /\ UNCHANGED <<now, storeVars, services, pc, cycleVars, laterCycles, storeFails,
                 hist, parseVars>>

----------------------------------------------------------------------------
(* The environment: the producer and the clock *)

(* the producer schedules a deploy: it writes the record and adds the      *)
(* identifier, which is not in the set, with its due time                  *)
Enqueue(id, score, bytes) ==
  /\ ~Member(zset, id)
  /\ hist[id].enq < MaxEnq
  /\ zset' = [zset EXCEPT ![id] = score]
  /\ hash' = [hash EXCEPT ![RecordKey(id)].metadata = bytes]
  /\ hist' = Bump(id, "enq")
  /\ UNCHANGED <<now, services, pc, cycleVars, driverVars, parseVars>>

(* the producer cancels a deploy it has scheduled *)
Cancel(id) ==
  /\ hist[id].enq > 0
  /\ ~hash[RecordKey(id)].cancellation
  /\ hash' = [hash EXCEPT ![RecordKey(id)].cancellation = TRUE]
  /\ UNCHANGED <<now, zset, services, pc, cycleVars, driverVars, hist, parseVars>>

(* the producer schedules again a deploy it has scheduled before and that  *)
(* is no longer in the set; the record stays as it wrote it                *)
Requeue(id, score) ==
  /\ ~Member(zset, id)
  /\ hist[id].enq >= 1
  /\ hist[id].enq < MaxEnq + MaxRequeue
  /\ zset' = [zset EXCEPT ![id] = score]
  /\ hist' = Bump(id, "enq")
  /\ UNCHANGED <<now, hash, services, pc, cycleVars, driverVars, parseVars>>

Tick ==
  /\ now < MaxTime
  /\ now' = now + 1
  /\ UNCHANGED <<storeVars, services, pc, cycleVars, driverVars, hist, parseVars>>

----------------------------------------------------------------------------
(* the steps of the consumer processes *)
ConsumerNext ==
  \/ \E c \in Consumers : LoopTop(c)
  \/ \E c \in Consumers : getNextDeploy(c)
  \/ \E c \in Consumers : lockDeploy(c)
  \/ \E c \in Consumers : validateDeploy(c)
  \/ \E c \in Consumers : getMetadata(c)
  \/ \E c \in Consumers : ServiceInspect(c)
  \/ \E c \in Consumers : ServiceUpdate(c)
  \/ \E c \in Consumers : notifyDeployState(c)
  \/ \E c \in Consumers : RunReturned(c)
  \/ \E c \in Consumers : Sleep(c)

Next ==
  \/ ConsumerNext
  \/ \E id \in Ids, score \in Scores, bytes \in MetadataBytes : Enqueue(id, score, bytes)
  \/ \E id \in Ids : Cancel(id)
  \/ Tick

Spec == Init /\ [][Next]_vars

----------------------------------------------------------------------------
(* The consumers with a store that answers every command and a producer    *)
(* that schedules identifiers again, and cancels none                      *)

RequeueInit ==
  /\ MainInit
  /\ storeFails = FALSE
  /\ url = <<>>
  /\ parsed = NotParsed

RequeueNext ==
  \/ ConsumerNext
  \/ \E id \in Ids, score \in Scores, u \in DockerURLs : Enqueue(id, score, JsonBytes(u))
  \/ \E id \in Ids, score \in Scores : Requeue(id, score)
  \/ Tick

RequeueSpec == RequeueInit /\ [][RequeueNext]_vars

----------------------------------------------------------------------------
(* The processes with the signal: SIGTERM may arrive at any moment of a    *)
(* process that runs                                                       *)

DriverInit ==
  /\ MainInit
  /\ storeFails = FALSE
  /\ url = <<>>
  /\ parsed = NotParsed

DriverNext ==
  \/ ConsumerNext
  \/ \E c \in Consumers : SigTerm(c)
  \/ \E id \in Ids, score \in Scores, u \in DockerURLs : Enqueue(id, score, JsonBytes(u))
  \/ Tick

DriverSpec == DriverInit /\ [][DriverNext]_vars

----------------------------------------------------------------------------
(* parseDockerURL on its own: every string over Chars up to MaxUrlLen *)

ParseInit ==
  /\ MainInit
  /\ storeFails = TRUE
  /\ url \in UrlInputs
  /\ parsed = NotParsed

Parse ==
  /\ parsed = NotParsed
  /\ parsed' = parseDockerURL(url)
  /\ UNCHANGED <<now, storeVars, services, pc, cycleVars, driverVars, hist, url>>

ParseSpec == ParseInit /\ [][Parse]_vars

----------------------------------------------------------------------------
(* C10 *)

Positions(s, ch) == {i \in 1..Len(s) : s[i] = ch}
Between(s, i, j) == SubSeq(s, i + 1, j - 1)

(* The shape [registry/]owner/repo:tag: exactly one colon, and one or two  *)
(* slashes before it.                                                      *)
ColonAt(s) == CHOOSE i \in Positions(s, Colon) : TRUE
SlashesBefore(s) == {i \in Positions(s, Slash) : i < ColonAt(s)}
WellShaped(s) ==
  /\ Cardinality(Positions(s, Colon)) = 1
  /\ Cardinality(SlashesBefore(s)) \in {1, 2}

ExpectedTriple(s) ==
  LET k == ColonAt(s)
      last == CHOOSE i \in SlashesBefore(s) : \A j \in SlashesBefore(s) : j <= i
      first == CHOOSE i \in SlashesBefore(s) : \A j \in SlashesBefore(s) : i <= j
      start == IF first = last THEN 0 ELSE first
  IN <<Between(s, start, last), Between(s, last, k), Between(s, k, Len(s) + 1)>>

(* C10: parseDockerURL yields (owner, repo, tag) for owner/repo:tag and    *)
(* for registry/owner/repo:tag, the registry dropped, and for a string of  *)
(* any other shape it yields the empty triple, its report of a failure,    *)
(* never a triple made of pieces of the string.                            *)
C10_ParseShapes ==
  parsed # NotParsed =>
    IF WellShaped(url) THEN parsed = ExpectedTriple(url) ELSE parsed = EmptyTriple

C10_Witness ==
  /\ parsed = <<(<<"a">>), (<<"b">>), (<<"a">>)>>
  /\ url = <<"b", Slash, "a", Slash, "b", Colon, "a">>

----------------------------------------------------------------------------
(* What a cycle has done so far, read from its calls *)

LastCall(c) == calls[c][Len(calls[c])]
Ops(c) == [i \in DOMAIN calls[c] |-> calls[c][i].op]

(* the claim step of c's cycle was answered with a count of 0 / of 1 *)
LostClaim(c) ==
  \E i \in DOMAIN calls[c] :
    calls[c][i].op = "ZREM" /\ calls[c][i].ok /\ calls[c][i].reply = 0
WonClaim(c) ==
  \E i \in DOMAIN calls[c] :
    calls[c][i].op = "ZREM" /\ calls[c][i].ok /\ calls[c][i].reply # 0

(* the validate step of c's cycle was answered "the marker exists" *)
SawCancellation(c) ==
  \E i \in DOMAIN calls[c] :
    calls[c][i].op = "HEXISTS" /\ calls[c][i].ok /\ calls[c][i].reply # 0

(* the metadata read of c's cycle was answered nil *)
SawNoMetadata(c) ==
  \E i \in DOMAIN calls[c] :
    calls[c][i].op = "HGET" /\ calls[c][i].ok /\ ~calls[c][i].reply.present

PastClaim == {"validateDeploy", "getMetadata", "ServiceInspect", "ServiceUpdate",
              "notifyDeployState"}

----------------------------------------------------------------------------
(* C1: of the claim steps (ZREM) made for one enqueued identifier, exactly *)
(* one is answered a non-zero count: never more claims than enqueues, and  *)
(* a count of zero only when another claim step got the member.  The       *)
(* consumer answered zero returns from Run with a nil error, its ZREM being*)
(* the last call of its cycle: no HEXISTS, no HGET, no control-plane call  *)
(* and no tracker request.                                                 *)
C1_ClaimAtMostOnce ==
  /\ \A id \in Ids :
       /\ hist[id].claimed <= hist[id].enq
       /\ hist[id].lost > 0 => hist[id].claimed >= 1
  /\ \A c \in Consumers :
       LostClaim(c) =>
         /\ pc[c] = "returned"
         /\ err[c] = Nil
         /\ Ops(c) = <<"ZRANGEBYSCORE", "ZREM">>

C1_Witness ==
  \E c \in Consumers :
    /\ LostClaim(c)
    /\ hist[deploy[c]].claimed = 1
    /\ \E o \in Consumers : o # c /\ deploy[o] = deploy[c] /\ WonClaim(o)

(* C2: for an identifier enqueued once, at most one validate step, at most *)
(* one control-plane update and at most one tracker request are ever made, *)
(* and at no time are two consumers past the claim for it (in general: no  *)
(* more of each than the identifier was enqueued).                         *)
C2_NoDoubleDeploy ==
  \A id \in Ids :
    /\ hist[id].validated <= hist[id].enq
    /\ hist[id].update <= hist[id].enq
    /\ hist[id].notify <= hist[id].enq
    /\ Cardinality({c \in Consumers : deploy[c] = id /\ pc[c] \in PastClaim})
         <= hist[id].enq

C2_Witness ==
  \E id \in Ids :
    /\ hist[id].enq = 1
    /\ hist[id].lost >= 1
    /\ hist[id].validated = 1
    /\ hist[id].update = 1
    /\ hist[id].notify = 1

(* C3: a cycle whose validate step finds the cancellation marker returns   *)
(* nil with the HEXISTS as its last call, and an identifier enqueued once  *)
(* and found cancelled is never read (HGET), inspected, updated or notified*)
(* and is not in the ordered set again.                                    *)
C3_CancelledDropped ==
  /\ \A c \in Consumers :
       SawCancellation(c) =>
         /\ pc[c] = "returned"
         /\ err[c] = Nil
         /\ Ops(c) = <<"ZRANGEBYSCORE", "ZREM", "HEXISTS">>
  /\ \A id \in Ids :
       (hist[id].enq = 1 /\ hist[id].cancelled >= 1) =>
         /\ hist[id].hget = 0
         /\ hist[id].inspect = 0
         /\ hist[id].update = 0
         /\ hist[id].notify = 0
         /\ ~Member(zset, id)

C3_Witness ==
  \E c \in Consumers :
    /\ SawCancellation(c)
    /\ hist[deploy[c]].cancelled = 1
    /\ hash[RecordKey(deploy[c])].metadata.json

(* C4: no control-plane update is submitted for an identifier whose record *)
(* holds the cancellation marker at the moment of the update.              *)
C4_NoUpdateWhileCancelled ==
  \A id \in Ids : hist[id].updateMarked = 0

(* C5: when no member of the ordered set has a score <= now and the        *)
(* selection query is answered, the cycle ends there: Run returns nil, the *)
(* query is its only call, and the ordered set, the records and the        *)
(* services are unchanged.                                                 *)
NothingDue == \A id \in Ids : Member(zset, id) => zset[id] > now

C5_NothingDueNoEffect ==
  [][\A c \in Consumers :
       (/\ pc[c] = "getNextDeploy"
        /\ pc'[c] # "getNextDeploy"
        /\ calls'[c][Len(calls'[c])].ok
        /\ NothingDue)
       => /\ pc'[c] = "returned"
          /\ err'[c] = Nil
          /\ Len(calls'[c]) = 1
          /\ zset' = zset
          /\ hash' = hash
          /\ services' = services
          /\ hist' = hist]_vars

C5_Witness ==
  \E c \in Consumers :
    /\ pc[c] = "returned"
    /\ Ops(c) = <<"ZRANGEBYSCORE">>
    /\ LastCall(c).ok
    /\ err[c] = Nil
    /\ NothingDue
    /\ \E id \in Ids : Member(zset, id)

(* C6: getNextDeploy, when the query is answered, returns a member whose   *)
(* score is the smallest of the scores <= now, or "" when no member has a  *)
(* score <= now; answered or not, it leaves the ordered set and the        *)
(* records unchanged.                                                      *)
Due == {id \in Ids : Member(zset, id) /\ zset[id] <= now}

C6_SelectsEarliestDue ==
  [][\A c \in Consumers :
       (pc[c] = "getNextDeploy" /\ pc'[c] # "getNextDeploy")
       => /\ zset' = zset
          /\ hash' = hash
          /\ calls'[c][Len(calls'[c])].ok =>
               IF Due = {}
               THEN deploy'[c] = NoDeploy
               ELSE /\ deploy'[c] \in Due
                    /\ \A o \in Due : zset[deploy'[c]] <= zset[o]]_vars

C6_Witness ==
  \E c \in Consumers :
    /\ pc[c] = "lockDeploy"
    /\ deploy[c] = 2
    /\ Member(zset, 1) /\ Member(zset, 2)
    /\ zset[2] < zset[1]
    /\ zset[1] <= now

(* C7: a cycle that claimed an identifier, found no cancellation marker    *)
(* and was answered nil for request:metadata returns the error "Deploy     *)
(* metadata not found for '<identifier>'", its HGET being its last call    *)
(* (no control-plane call, no tracker request), and the identifier,        *)
(* enqueued once, is not in the ordered set.                               *)
C7_MissingMetadata ==
  \A c \in Consumers :
    SawNoMetadata(c) =>
      /\ pc[c] = "returned"
      /\ Len(err[c]) = 2
      /\ err[c][1] = "Deploy metadata not found for"
      /\ err[c][2] = IdString(deploy[c])
      /\ Ops(c) = <<"ZRANGEBYSCORE", "ZREM", "HEXISTS", "HGET">>
      /\ calls[c][2].reply = 1
      /\ calls[c][3].reply = 0
      /\ hist[deploy[c]].enq = 1 => ~Member(zset, deploy[c])

C7_Witness ==
  \E c \in Consumers :
    /\ SawNoMetadata(c)
    /\ deploy[c] = 2
    /\ hist[2].enq = 1

(* what a cycle that deployed the image reference u has to have called *)
ExpectedTrackerURL(u) ==
  LET t == ExpectedTriple(u)
  IN deployStateURI \o <<Slash, "deployments", Slash>> \o t[1] \o <<Slash>> \o t[2]
       \o <<Slash>> \o t[3] \o <<Slash, "cluster", Slash>> \o cluster
       \o <<Slash, "passed">>

DeployedAsRequested(c, u) ==
  /\ Ops(c) = <<"ZRANGEBYSCORE", "ZREM", "HEXISTS", "HGET", "ServiceInspect",
                "ServiceUpdate", "PUT">>
  /\ calls[c][5].ok
  /\ calls[c][5].arg = ExpectedTriple(u)[2]
  /\ calls[c][6].ok
  /\ calls[c][6].arg = [ID |-> calls[c][5].reply.ID,
                        Version |-> calls[c][5].reply.Version,
                        Image |-> u]
  /\ calls[c][7].ok
  /\ calls[c][7].arg = ExpectedTrackerURL(u)

RecordURL(id) == hash[RecordKey(id)].metadata.dockerUrl
RecordHasImage(id) ==
  /\ hash[RecordKey(id)].metadata.json
  /\ WellShaped(RecordURL(id))

(* C8 as stated: every cycle that returns nil after claiming an identifier *)
(* whose record holds an image reference [registry/]owner/repo:tag has     *)
(* inspected the service repo, submitted one update with the full          *)
(* reference and the inspected version, and sent one PUT to                *)
(* <base>/deployments/<owner>/<repo>/<tag>/cluster/<cluster>/passed.       *)
C8_AsStated ==
  \A c \in Consumers :
    (/\ pc[c] = "returned"
     /\ err[c] = Nil
     /\ WonClaim(c)
     /\ RecordHasImage(deploy[c]))
    => DeployedAsRequested(c, RecordURL(deploy[c]))

(* C8, amended: every cycle that returns nil after claiming an identifier, *)
(* finding no cancellation marker on it and decoding an image reference    *)
(* [registry/]owner/repo:tag has inspected the service repo, submitted     *)
(* exactly one update, for the inspected service, with the full reference  *)
(* as image and the inspected version, and sent exactly one PUT to         *)
(* <base>/deployments/<owner>/<repo>/<tag>/cluster/<cluster>/passed.       *)
C8_DeployedAsRequested ==
  \A c \in Consumers :
    (/\ pc[c] = "returned"
     /\ err[c] = Nil
     /\ WonClaim(c)
     /\ ~SawCancellation(c)
     /\ WellShaped(metadata[c].DockerURL))
    => DeployedAsRequested(c, metadata[c].DockerURL)

C8_Witness ==
  \E c \in Consumers :
    /\ pc[c] = "returned"
    /\ err[c] = Nil
    /\ WonClaim(c)
    /\ ~SawCancellation(c)
    /\ metadata[c].DockerURL = <<"g", Slash, "o", Slash, "r", Colon, "u">>
    /\ calls[c][5].reply.Version = 1
    /\ services[<<"r">>].Image = <<"g", Slash, "o", Slash, "r", Colon, "u">>

(* C9: when the tracker answers the PUT with a status code above 399, Run  *)
(* returns an error; the step changes neither the services (the update of  *)
(* this cycle, its sixth call, is not rolled back) nor the ordered set,    *)
(* the PUT is the last call of the cycle, and the identifier, enqueued     *)
(* once, is not in the ordered set.                                        *)
C9_TrackerFailureNoRollback ==
  [][\A c \in Consumers :
       (/\ pc[c] = "notifyDeployState"
        /\ pc'[c] # "notifyDeployState"
        /\ calls'[c][Len(calls'[c])].ok
        /\ calls'[c][Len(calls'[c])].reply > 399)
       => /\ pc'[c] = "returned"
          /\ err'[c] # Nil
          /\ Len(calls'[c]) = 7
          /\ calls[c][6].op = "ServiceUpdate"
          /\ calls[c][6].ok
          /\ services' = services
          /\ zset' = zset
          /\ hist[deploy[c]].enq = 1 => ~Member(zset', deploy[c])]_vars

C9_Witness ==
  \E c \in Consumers :
    /\ pc[c] = "returned"
    /\ Len(calls[c]) = 7
    /\ LastCall(c).ok
    /\ LastCall(c).reply = 500
    /\ err[c] # Nil
    /\ services[calls[c][6].arg.ID].Image = metadata[c].DockerURL
    /\ ~Member(zset, deploy[c])

(* C11: a step of selection (ZRANGEBYSCORE) or of the claim (ZREM) that the*)
(* store answers with an error ends the cycle there: Run returns that      *)
(* error, the ordered set, the records and the counts of claims are as     *)
(* before, and the failed command is the last call of the cycle, so that   *)
(* after a failed selection no ZREM is sent and after a failed ZREM no     *)
(* HEXISTS, HGET, control-plane call or PUT.                               *)
C11_StoreErrorStops ==
  [][\A c \in Consumers :
       (/\ pc[c] \in {"getNextDeploy", "lockDeploy"}
        /\ pc'[c] # pc[c]
        /\ ~calls'[c][Len(calls'[c])].ok)
       => /\ pc'[c] = "returned"
          /\ err'[c] = RedisError
          /\ zset' = zset
          /\ hash' = hash
          /\ hist' = hist
          /\ Ops(c)' = IF pc[c] = "getNextDeploy"
                       THEN <<"ZRANGEBYSCORE">>
                       ELSE <<"ZRANGEBYSCORE", "ZREM">>]_vars

C11_Witness ==
  \E c \in Consumers :
    /\ pc[c] = "returned"
    /\ Ops(c) = <<"ZRANGEBYSCORE", "ZREM">>
    /\ ~LastCall(c).ok
    /\ err[c] = RedisError
    /\ Member(zset, deploy[c])
    /\ hist[deploy[c]].claimed = 0

(* C12: a cycle that has claimed an identifier, found no cancellation      *)
(* marker and decoded metadata whose image reference is not of the shape   *)
(* [registry/]owner/repo:tag returns an error: its inspect of the service, *)
(* asked for the empty name, is its fifth and last call and is answered    *)
(* with an error, no update and no PUT follow, and the identifier,         *)
(* enqueued once, is not in the ordered set.                               *)
C12_MalformedImageReference ==
  \A c \in Consumers :
    (Len(calls[c]) >= 5 /\ ~WellShaped(metadata[c].DockerURL)) =>
      /\ pc[c] = "returned"
      /\ err[c] # Nil
      /\ Len(calls[c]) = 5
      /\ LastCall(c).op = "ServiceInspect"
      /\ LastCall(c).arg = <<>>
      /\ ~LastCall(c).ok
      /\ hist[deploy[c]].enq = 1 => ~Member(zset, deploy[c])

C12_Witness ==
  \E c \in Consumers :
    /\ pc[c] = "returned"
    /\ WonClaim(c)
    /\ calls[c][3].reply = 0
    /\ metadata[c].DockerURL = <<"r", Colon, "t">>
    /\ Len(calls[c]) = 5
    /\ err[c] = NoSuchService
    /\ ~Member(zset, deploy[c])
    /\ hist[deploy[c]].enq = 1

(* C13: after Run has returned a connectivity error of the store or of the *)
(* control plane, the next step of the driver loop is to sleep until the   *)
(* next iteration: the process does not end.                               *)
C13_TransientErrorNotFatal ==
  [][\A c \in Consumers :
       (/\ pc[c] = "returned"
        /\ err[c] \in {RedisError, DockerError}
        /\ pc'[c] # pc[c])
       => pc'[c] = "sleep"]_vars

(* the calls of one cycle, in their order, and the position of the process *)
(* before each of them                                                     *)
StepOrder == <<"ZRANGEBYSCORE", "ZREM", "HEXISTS", "HGET", "ServiceInspect",
               "ServiceUpdate", "PUT">>
StepLabels == <<"getNextDeploy", "lockDeploy", "validateDeploy", "getMetadata",
                "ServiceInspect", "ServiceUpdate", "notifyDeployState">>

(* the exits of a cycle that are no failure: nothing selected, claim lost, *)
(* cancelled, and the end of the sequence (the tracker notified)           *)
NothingSelectedExit(c) ==
  Len(calls[c]) = 1 /\ LastCall(c).ok /\ LastCall(c).reply = NoDeploy
ClaimLostExit(c) ==
  Len(calls[c]) = 2 /\ LastCall(c).ok /\ LastCall(c).reply = 0
CancelledExit(c) ==
  Len(calls[c]) = 3 /\ LastCall(c).ok /\ LastCall(c).reply # 0
Done(c) ==
  Len(calls[c]) = 7 /\ LastCall(c).ok /\ LastCall(c).reply <= 399

(* C14: the calls of a cycle are a prefix of select, claim, validate,      *)
(* metadata read, inspect, update, notify, and the next call is the next   *)
(* of that order; a ZREM follows only a selection that gave an identifier, *)
(* a HEXISTS only a ZREM that removed it, a HGET only a HEXISTS that found *)
(* no marker, an inspect only metadata that was present and decoded, an    *)
(* update only an inspect that succeeded, a PUT only an update that        *)
(* succeeded.  A cycle that has returned did so with a nil error exactly   *)
(* when nothing was selected, the claim was lost, the identifier was       *)
(* cancelled, or the whole sequence was done; every other end, a failing   *)
(* step after the claim among them, is an error.                           *)
C14_StepOrder ==
  \A c \in Consumers :
    LET n == Len(calls[c])
    IN /\ n <= 7
       /\ \A i \in 1..n : calls[c][i].op = StepOrder[i]
       /\ \A i \in 1..7 : pc[c] = StepLabels[i] => n = i - 1
       /\ n >= 2 => calls[c][1].ok /\ calls[c][1].reply # NoDeploy
       /\ n >= 3 => calls[c][2].ok /\ calls[c][2].reply # 0
       /\ n >= 4 => calls[c][3].ok /\ calls[c][3].reply = 0
       /\ n >= 5 => /\ calls[c][4].ok
                    /\ calls[c][4].reply.present
                    /\ calls[c][4].reply.json
       /\ n >= 6 => calls[c][5].ok
       /\ n >= 7 => calls[c][6].ok
       /\ pc[c] = "returned" =>
            /\ n >= 1
            /\ err[c] = Nil <=> \/ NothingSelectedExit(c)
                                \/ ClaimLostExit(c)
                                \/ CancelledExit(c)
                                \/ Done(c)

C14_Witness ==
  \E c, o \in Consumers :
    /\ pc[c] = "returned" /\ Done(c) /\ err[c] = Nil
    /\ pc[o] = "returned" /\ Len(calls[o]) = 4 /\ ~LastCall(o).ok /\ err[o] # Nil

(* C15: an inspect or an update that the control plane fails or rejects    *)
(* (no such service, connection error, stale version) is the last call of  *)
(* its cycle: Run returns the error of the control plane, the cycle has    *)
(* submitted at most the one update that was rejected, no PUT is sent, and *)
(* the rejected update has changed no service.                             *)
C15_ControlPlaneFailureStops ==
  [][\A c \in Consumers :
       (/\ pc[c] \in {"ServiceInspect", "ServiceUpdate"}
        /\ pc'[c] # pc[c]
        /\ ~calls'[c][Len(calls'[c])].ok)
       => /\ pc'[c] = "returned"
          /\ err'[c] \in {DockerError, NoSuchService, OutOfSequence}
          /\ err'[c] = OutOfSequence => pc[c] = "ServiceUpdate"
          /\ err'[c] = NoSuchService => pc[c] = "ServiceInspect"
          /\ services' = services
          /\ Cardinality({i \in DOMAIN calls'[c] : calls'[c][i].op = "ServiceUpdate"})
               = IF pc[c] = "ServiceUpdate" THEN 1 ELSE 0
          /\ \A i \in DOMAIN calls'[c] : calls'[c][i].op # "PUT"
          /\ hist'[deploy[c]].notify = hist[deploy[c]].notify]_vars

C15_Witness ==
  \E c \in Consumers :
    /\ pc[c] = "returned"
    /\ Len(calls[c]) = 6
    /\ LastCall(c).op = "ServiceUpdate"
    /\ ~LastCall(c).ok
    /\ err[c] = OutOfSequence
    /\ services[LastCall(c).arg.ID].Version # LastCall(c).arg.Version
    /\ hist[deploy[c]].notify = 0

C17_NotClaimedBeforeDue ==
  [][\A c \in Consumers :
       (/\ pc[c] = "lockDeploy"
        /\ pc'[c] # pc[c]
        /\ Member(zset, deploy[c])
        /\ ~Member(zset', deploy[c]))
       => zset[deploy[c]] <= now]_vars

(* C18: a step of a cycle changes no record of the store (request:metadata *)
(* and cancellation of every identifier stay as they are), and changes the *)
(* ordered set only in the claim step, the second call of the cycle, and   *)
(* there only by removing the identifier the cycle selected: every other   *)
(* member keeps its place and score.                                       *)
C18_OnlyRemovesSelected ==
  [][pc' # pc =>
       /\ hash' = hash
       /\ \A id \in Ids :
            zset'[id] # zset[id] =>
              /\ ~Member(zset', id)
              /\ \E c \in Consumers :
                   /\ pc[c] = "lockDeploy"
                   /\ pc'[c] # pc[c]
                   /\ Len(calls[c]) = 1
                   /\ calls[c][1].reply = id
                   /\ deploy[c] = id]_vars

C18_Witness ==
  \E c \in Consumers :
    /\ pc[c] = "returned"
    /\ WonClaim(c)
    /\ Len(calls[c]) = 7
    /\ ~Member(zset, deploy[c])
    /\ hash[RecordKey(deploy[c])].metadata = calls[c][4].reply
    /\ hash[RecordKey(deploy[c])].cancellation
    /\ \E id \in Ids : id # deploy[c] /\ Member(zset, id) /\ zset[id] <= now

(* what C19 says of the signal and the cycle in flight: the step that sets *)
(* the flag of a process leaves its position and its cycle as they are,    *)
(* and a process exits only from the top of its loop, its flag set         *)
ExitsOnlyAtLoopTop(c) ==
  /\ (sigTermReceived'[c] /\ ~sigTermReceived[c]) =>
       /\ pc'[c] = pc[c]
       /\ calls'[c] = calls[c]
       /\ err'[c] = err[c]
  /\ (pc'[c] = "exited" /\ pc[c] # "exited") =>
       /\ pc[c] = "loop"
       /\ sigTermReceived[c]

C20_DueEventuallyClaimed ==
  (\A c \in Consumers : pc[c] = "panicked") => Due = {}
====
